---- MODULE Spec2Model ----
(***************************************************************************)
(* Genshin Impact Tracker: the record store ItemTracker of src/main.py.    *)
(*                                                                         *)
(* Conventions of the model                                                *)
(*  - a stored item is a record with the eight keys of the Python dict;    *)
(*  - a coordinate is the integer number of hundredths of the decimal      *)
(*    literal the float was read from (1005 is float("10.05"));            *)
(*  - list indexes in arguments are Python's (0-based); Item(its, i) reads *)
(*    its[i];                                                              *)
(*  - `last' records the last call (operation, arguments, result) and      *)
(*    `pre' the item list at the moment of that call;                      *)
(*  - region_var and tree are the state of the window GenshinTrackerGUI of *)
(*    src/genshin_gui.py: the region filter and, for every table row, the  *)
(*    position in self.items of the record the row was built from.         *)
(***************************************************************************)
EXTENDS Integers, Sequences, FiniteSets

VARIABLES items, data_file, dirs, file, last, pre, region_var, tree

vars == <<items, data_file, dirs, file, last, pre, region_var, tree>>

\* The state of the window, which no method of ItemTracker touches.
gui_vars == <<region_var, tree>>

\* The entry "Все регионы" of the region filter.
AllRegions == "All regions"

----------------------------------------------------------------------------
(* Bounds and input sets *)

MaxItems == 2

\* (name, region, x, y, item_type) argument tuples offered to add_item.
AddInputs ==
    { <<"Chest A", "Mondstadt", 1000, 2000, "Chest">>,
      <<"chest a", "mondstadt", 1005, 2000, "Resource">>,
      <<"Chest A", "Mondstadt", 1010, 2000, "Chest">>,
      <<"Chest A", "Mondstadt", 1000, 2010, "Chest">>,
      <<"Chest A", "Mondstadt", 1030, 2000, "Resource">>,
      <<"Chest A", "Liyue", 1000, 2000, "Chest">>,
      <<"Ore", "mondstadt", 1000, 2000, "Resource">> }

\* Values of datetime.now().strftime(...) at the moment of a call.
Dates == {"2024-01-01 10:00:00"}

\* add_item argument tuples of the persistence runs.
FileAddInputs ==
    { <<"Chest A", "Mondstadt", 1000, 2000, "Chest">>,
      <<"Ore", "Liyue", 1005, 2010, "Resource">> }

\* data_file arguments of the constructor, as lists of path components:
\* the default "data/items.json", a bare "items.json" and a nested path.
Paths ==
    { <<"data", "items.json">>,
      <<"items.json">>,
      <<"saves", "genshin", "items.json">> }

\* notes arguments of mark_collected ("" is the default).
NotesIn == {"", "seen"}

\* region arguments of get_items_by_region.
RegionQueries == {"Mondstadt", "mondstadt", "Liyue", "Inazuma"}

----------------------------------------------------------------------------
(* Pure helpers *)

\* str.lower() on the strings of the model.
Lower(s) ==
    CASE s = "Chest A" -> "chest a"
      [] s = "Ore" -> "ore"
      [] s = "Mondstadt" -> "mondstadt"
      [] s = "Liyue" -> "liyue"
      [] s = "Inazuma" -> "inazuma"
      [] OTHER -> s

Abs(n) == IF n < 0 THEN -n ELSE n

\* Lower literals lo (in hundredths) for which the binary64 difference
\* float(lo + 0.10) - float(lo) is below the binary64 value of 0.1
\* (10.1 - 10.0 = 0.0999999999999996..., while 20.1 - 20.0 = 0.1000000000000014...).
RoundsBelow == {1000, 1010}

\* abs(a - b) < 0.1 evaluated in binary64 on the floats read from the
\* literals a and b.
FloatNear(a, b) ==
    \/ Abs(a - b) < 10
    \/ Abs(a - b) = 10 /\ (IF a < b THEN a ELSE b) \in RoundsBelow

\* its[i] with Python's 0-based index.
Item(its, i) == its[i + 1]

\* SimilarItem comparing name and region without lower().
SimilarItemCaseSensitive(item, name, region, x, y) ==
    /\ item.name = name
    /\ item.region = region
    /\ FloatNear(item.x, x)
    /\ FloatNear(item.y, y)

\* SimilarItem comparing the coordinates for equality.
SimilarItemExactCoords(item, name, region, x, y) ==
    /\ Lower(item.name) = Lower(name)
    /\ Lower(item.region) = Lower(region)
    /\ item.x = x
    /\ item.y = y

\* SimilarItem satisfied by one near coordinate.
SimilarItemEitherAxis(item, name, region, x, y) ==
    /\ Lower(item.name) = Lower(name)
    /\ Lower(item.region) = Lower(region)
    /\ (FloatNear(item.x, x) \/ FloatNear(item.y, y))

\* The condition of the duplicate scan of add_item for one stored item.
SimilarItem(item, name, region, x, y) ==
    /\ Lower(item.name) = Lower(name)
    /\ Lower(item.region) = Lower(region)
    /\ FloatNear(item.x, x)
    /\ FloatNear(item.y, y)

\* for item in self.items: if <similar>: return False
HasSimilar(its, name, region, x, y) ==
    \E i \in 0 .. Len(its) - 1 : SimilarItem(Item(its, i), name, region, x, y)

\* NewItem created as already collected.
NewItemCollected(name, region, x, y, item_type, now) ==
    [name |-> name, region |-> region, x |-> x, y |-> y, type |-> item_type,
     collected |-> TRUE, date_added |-> now, notes |-> ""]

\* The dict literal new_item.
NewItem(name, region, x, y, item_type, now) ==
    [name |-> name, region |-> region, x |-> x, y |-> y, type |-> item_type,
     collected |-> FALSE, date_added |-> now, notes |-> ""]

----------------------------------------------------------------------------
(* Operations of ItemTracker *)

add_item(name, region, x, y, item_type, now) ==
    /\ HasSimilar(items, name, region, x, y) \/ Len(items) < MaxItems
    /\ pre' = items
    /\ IF HasSimilar(items, name, region, x, y)
       THEN /\ items' = items
            /\ last' = [op |-> "add_item", name |-> name, region |-> region,
                        x |-> x, y |-> y, type |-> item_type, ret |-> FALSE]
       ELSE /\ items' = Append(items, NewItem(name, region, x, y, item_type, now))
            /\ last' = [op |-> "add_item", name |-> name, region |-> region,
                        x |-> x, y |-> y, type |-> item_type, ret |-> TRUE]
    /\ UNCHANGED <<data_file, dirs, file>>

\* mark_collected with the bounds test index <= len(self.items).
mark_collected_off_by_one(index, collected, notes) ==
    /\ pre' = items
    /\ IF 0 <= index /\ index <= Len(items)
       THEN /\ items' = [i \in 1 .. Len(items) |->
                            IF i = index + 1
                            THEN [items[i] EXCEPT !.collected = collected,
                                                  !.notes = IF notes # "" THEN notes ELSE @]
                            ELSE items[i]]
            /\ last' = [op |-> "mark_collected", index |-> index,
                        collected |-> collected, notes |-> notes, ret |-> TRUE]
       ELSE /\ items' = items
            /\ last' = [op |-> "mark_collected", index |-> index,
                        collected |-> collected, notes |-> notes, ret |-> FALSE]
    /\ UNCHANGED <<data_file, dirs, file>>

\* mark_collected flipping the flag instead of setting it.
mark_collected_flips(index, collected, notes) ==
    /\ pre' = items
    /\ IF 0 <= index /\ index < Len(items)
       THEN /\ items' = [items EXCEPT ![index + 1] =
                            [@ EXCEPT !.collected = ~@,
                                      !.notes = IF notes # "" THEN notes ELSE @]]
            /\ last' = [op |-> "mark_collected", index |-> index,
                        collected |-> collected, notes |-> notes, ret |-> TRUE]
       ELSE /\ items' = items
            /\ last' = [op |-> "mark_collected", index |-> index,
                        collected |-> collected, notes |-> notes, ret |-> FALSE]
    /\ UNCHANGED <<data_file, dirs, file>>

\* mark_collected storing the notes argument whatever it is.
mark_collected_overwrites_notes(index, collected, notes) ==
    /\ pre' = items
    /\ IF 0 <= index /\ index < Len(items)
       THEN /\ items' = [items EXCEPT ![index + 1] =
                            [@ EXCEPT !.collected = collected, !.notes = notes]]
            /\ last' = [op |-> "mark_collected", index |-> index,
                        collected |-> collected, notes |-> notes, ret |-> TRUE]
       ELSE /\ items' = items
            /\ last' = [op |-> "mark_collected", index |-> index,
                        collected |-> collected, notes |-> notes, ret |-> FALSE]
    /\ UNCHANGED <<data_file, dirs, file>>

\* if 0 <= index < len(self.items): ... return True / else: return False
mark_collected(index, collected, notes) ==
    /\ pre' = items
    /\ IF 0 <= index /\ index < Len(items)
       THEN /\ items' = [items EXCEPT ![index + 1] =
                            [@ EXCEPT !.collected = collected,
                                      !.notes = IF notes # "" THEN notes ELSE @]]
            /\ last' = [op |-> "mark_collected", index |-> index,
                        collected |-> collected, notes |-> notes, ret |-> TRUE]
       ELSE /\ items' = items
            /\ last' = [op |-> "mark_collected", index |-> index,
                        collected |-> collected, notes |-> notes, ret |-> FALSE]
    /\ UNCHANGED <<data_file, dirs, file>>

\* return self.items
get_all_items ==
    /\ pre' = items
    /\ last' = [op |-> "get_all_items", ret |-> items]
    /\ UNCHANGED <<items, data_file, dirs, file>>

\* RegionFilter comparing the regions without lower().
RECURSIVE RegionFilterCaseSensitive(_, _)
RegionFilterCaseSensitive(its, region) ==
    IF its = <<>> THEN <<>>
    ELSE IF Head(its).region = region
         THEN <<Head(its)>> \o RegionFilterCaseSensitive(Tail(its), region)
         ELSE RegionFilterCaseSensitive(Tail(its), region)

\* [item for item in its if item['region'].lower() == region.lower()]
RECURSIVE RegionFilter(_, _)
RegionFilter(its, region) ==
    IF its = <<>> THEN <<>>
    ELSE IF Lower(Head(its).region) = Lower(region)
         THEN <<Head(its)>> \o RegionFilter(Tail(its), region)
         ELSE RegionFilter(Tail(its), region)

get_items_by_region(region) ==
    /\ pre' = items
    /\ last' = [op |-> "get_items_by_region", region |-> region,
                ret |-> RegionFilter(items, region)]
    /\ UNCHANGED <<items, data_file, dirs, file>>

\* sum(1 for item in its if item['collected'])
RECURSIVE CountCollected(_)
CountCollected(its) ==
    IF its = <<>> THEN 0
    ELSE (IF Head(its).collected THEN 1 ELSE 0) + CountCollected(Tail(its))

\* Percentage without the total > 0 test.
PercentageUnguarded(collected, total) ==
    IF total = 0
    THEN [num |-> 0, den |-> 1, raised |-> TRUE]
    ELSE [num |-> collected * 100, den |-> total, raised |-> FALSE]

\* (collected / total * 100) if total > 0 else 0, as the exact fraction
\* num/den; raised marks the ZeroDivisionError of a division by 0.
Percentage(collected, total) ==
    IF total > 0
    THEN [num |-> collected * 100, den |-> total, raised |-> FALSE]
    ELSE [num |-> 0, den |-> 1, raised |-> FALSE]

\* The dict returned by get_collected_stats.
Stats(its) ==
    LET total == Len(its)
        collected == CountCollected(its)
    IN  [total |-> total, collected |-> collected,
         remaining |-> total - collected,
         percentage |-> Percentage(collected, total)]

get_collected_stats ==
    /\ pre' = items
    /\ last' = [op |-> "get_collected_stats", ret |-> Stats(items),
                raised |-> Stats(items).percentage.raised]
    /\ UNCHANGED <<items, data_file, dirs, file>>

----------------------------------------------------------------------------
(* Persistence: the JSON document and the file system *)

\* JSON values as tagged trees.
JStr(s) == [t |-> "str", v |-> s]
JNum(n) == [t |-> "num", v |-> n]
JBool(b) == [t |-> "bool", v |-> b]
JNull == [t |-> "null", v |-> "null"]
JArr(seq) == [t |-> "arr", v |-> seq]
JObj(rec) == [t |-> "obj", v |-> rec]

\* DumpItem losing the notes.
DumpItemNoNotes(item) ==
    JObj([name |-> JStr(item.name), region |-> JStr(item.region),
          x |-> JNum(item.x), y |-> JNum(item.y), type |-> JStr(item.type),
          collected |-> JBool(item.collected),
          date_added |-> JStr(item.date_added), notes |-> JStr("")])

\* json.dump of one item dict: str, float and bool values by key.
DumpItem(item) ==
    JObj([name |-> JStr(item.name), region |-> JStr(item.region),
          x |-> JNum(item.x), y |-> JNum(item.y), type |-> JStr(item.type),
          collected |-> JBool(item.collected),
          date_added |-> JStr(item.date_added), notes |-> JStr(item.notes)])

\* DumpData writing the number of collected items as total_items.
DumpDataCountsCollected(its, now) ==
    JObj([metadata |-> JObj([save_date |-> JStr(now),
                             total_items |-> JNum(CountCollected(its))]),
          items |-> JArr([i \in 1 .. Len(its) |-> DumpItem(its[i])])])

\* json.dump of data = {'metadata': {...}, 'items': self.items}.
DumpData(its, now) ==
    JObj([metadata |-> JObj([save_date |-> JStr(now),
                             total_items |-> JNum(Len(its))]),
          items |-> JArr([i \in 1 .. Len(its) |-> DumpItem(its[i])])])

\* The Python value json.load builds from a JSON value: an object becomes a
\* dict, an array a list, a scalar itself.
RECURSIVE PyOfJson(_)
PyOfJson(j) ==
    CASE j.t = "obj" -> [k \in DOMAIN j.v |-> PyOfJson(j.v[k])]
      [] j.t = "arr" -> [i \in 1 .. Len(j.v) |-> PyOfJson(j.v[i])]
      [] OTHER -> j.v

\* os.path.dirname on a list of path components ("" is <<>>).
Dirname(path) == SubSeq(path, 1, Len(path) - 1)

\* The directories os.makedirs(d) creates: d and its ancestors.
Ancestors(d) == { SubSeq(d, 1, k) : k \in 1 .. Len(d) }

\* save_data: the try block; any exception is caught and False returned.
\* writable is the environment: whether the location accepts the write.
save_data(writable, now) ==
    /\ pre' = items
    /\ IF Dirname(data_file) = <<>>
       THEN \* os.makedirs("") raises FileNotFoundError
            /\ last' = [op |-> "save_data", writable |-> writable, ret |-> FALSE]
            /\ UNCHANGED <<dirs, file>>
       ELSE IF ~writable
       THEN \* os.makedirs or open raises PermissionError
            /\ last' = [op |-> "save_data", writable |-> writable, ret |-> FALSE]
            /\ UNCHANGED <<dirs, file>>
       ELSE /\ dirs' = dirs \cup Ancestors(Dirname(data_file))
            /\ file' = [kind |-> "json", val |-> DumpData(items, now)]
            /\ last' = [op |-> "save_data", writable |-> writable, ret |-> TRUE]
    /\ UNCHANGED <<items, data_file>>

\* 'items' in data, for the value parsed from the JSON value j:
\* "yes", "no" or "TypeError".
ItemsIn(j) ==
    CASE j.t = "obj" -> IF "items" \in DOMAIN j.v THEN "yes" ELSE "no"
      [] j.t = "arr" -> IF \E i \in 1 .. Len(j.v) :
                              j.v[i].t = "str" /\ j.v[i].v = "items"
                        THEN "yes" ELSE "no"
      [] j.t = "str" -> IF j.v = "items" THEN "yes" ELSE "no"
      [] OTHER -> "TypeError"

\* Whether len(v) is defined for the value parsed from j.
HasLen(j) == j.t \in {"obj", "arr", "str"}

\* The outcome of load_data on the file content f: the new item list and
\* the returned value.
LoadResult(f) ==
    IF f.kind = "missing"
    THEN [items |-> <<>>, ret |-> FALSE]
    ELSE IF f.kind = "text"
    THEN \* json.load raises JSONDecodeError
         [items |-> <<>>, ret |-> FALSE]
    ELSE IF ItemsIn(f.val) = "TypeError"
    THEN [items |-> <<>>, ret |-> FALSE]
    ELSE IF ItemsIn(f.val) = "no"
    THEN [items |-> <<>>, ret |-> FALSE]
    ELSE IF f.val.t # "obj"
    THEN \* data['items'] raises TypeError on a list or a str
         [items |-> <<>>, ret |-> FALSE]
    ELSE IF ~HasLen(f.val.v.items)
    THEN \* len(self.items) raises TypeError
         [items |-> <<>>, ret |-> FALSE]
    ELSE [items |-> PyOfJson(f.val.v.items), ret |-> TRUE]

\* load_data returning True when the file does not exist.
load_data_missing_true ==
    /\ pre' = items
    /\ items' = LoadResult(file).items
    /\ last' = [op |-> "load_data",
                ret |-> (file.kind = "missing" \/ LoadResult(file).ret)]
    /\ UNCHANGED <<data_file, dirs, file>>

\* load_data keeping the previous items when the load fails.
load_data_keep_items ==
    /\ pre' = items
    /\ items' = IF LoadResult(file).ret THEN LoadResult(file).items ELSE items
    /\ last' = [op |-> "load_data", ret |-> LoadResult(file).ret]
    /\ UNCHANGED <<data_file, dirs, file>>

load_data ==
    /\ pre' = items
    /\ items' = LoadResult(file).items
    /\ last' = [op |-> "load_data", ret |-> LoadResult(file).ret]
    /\ UNCHANGED <<data_file, dirs, file>>

\* ItemTracker(data_file) on the same file: self.items = [] and load_data(),
\* whose result the constructor drops.
construct ==
    /\ pre' = items
    /\ items' = LoadResult(file).items
    /\ last' = [op |-> "__init__", loaded |-> LoadResult(file).ret]
    /\ UNCHANGED <<data_file, dirs, file>>

Init ==
    /\ items = <<>>
    /\ data_file = <<"data", "items.json">>
    /\ dirs = {}
    /\ file = [kind |-> "missing"]
    /\ last = [op |-> "init"]
    /\ pre = <<>>
    /\ region_var = AllRegions
    /\ tree = <<>>

AddItem ==
    /\ \E a \in AddInputs, now \in Dates :
           add_item(a[1], a[2], a[3], a[4], a[5], now)
    /\ UNCHANGED gui_vars

MarkCollected ==
    /\ \E index \in -1 .. MaxItems, collected \in BOOLEAN, notes \in NotesIn :
           mark_collected(index, collected, notes)
    /\ UNCHANGED gui_vars

GetAllItems == get_all_items /\ UNCHANGED gui_vars

GetItemsByRegion ==
    /\ \E region \in RegionQueries : get_items_by_region(region)
    /\ UNCHANGED gui_vars

GetCollectedStats == get_collected_stats /\ UNCHANGED gui_vars

Next ==
    \/ AddItem
    \/ MarkCollected
    \/ GetAllItems
    \/ GetItemsByRegion
    \/ GetCollectedStats

Spec == Init /\ [][Next]_vars

----------------------------------------------------------------------------
(* The persistence runs: a tracker on any of the paths, its file edited or *)
(* removed from outside between calls.                                     *)

\* File contents another program may leave at data_file.
ExternalFiles ==
    { [kind |-> "missing"],
      [kind |-> "text", val |-> "{not json"],
      [kind |-> "json", val |-> JObj([metadata |-> JObj([total_items |-> JNum(0)])])],
      [kind |-> "json", val |-> JArr(<<>>)],
      [kind |-> "json", val |-> JArr(<<JStr("items")>>)],
      [kind |-> "json", val |-> JStr("items")],
      [kind |-> "json", val |-> JNum(5)],
      [kind |-> "json", val |-> JNull],
      [kind |-> "json", val |-> JObj([items |-> JNull])],
      [kind |-> "json", val |-> JObj([items |-> JArr(<<>>)])] }

InitFile ==
    /\ items = <<>>
    /\ data_file \in Paths
    /\ dirs = {}
    /\ file = [kind |-> "missing"]
    /\ last = [op |-> "init"]
    /\ pre = <<>>
    /\ region_var = AllRegions
    /\ tree = <<>>

AddItemFile ==
    /\ \E a \in FileAddInputs, now \in Dates :
           add_item(a[1], a[2], a[3], a[4], a[5], now)
    /\ UNCHANGED gui_vars

SaveData ==
    /\ \E writable \in BOOLEAN, now \in Dates : save_data(writable, now)
    /\ UNCHANGED gui_vars

LoadData == load_data /\ UNCHANGED gui_vars

Construct == construct /\ UNCHANGED gui_vars

\* Another program writes or removes the file (its directory then exists).
EnvWriteFile ==
    \E f \in ExternalFiles :
        /\ file' = f
        /\ dirs' = IF f.kind = "missing" THEN dirs
                   ELSE dirs \cup Ancestors(Dirname(data_file))
        /\ last' = [op |-> "env"]
        /\ pre' = items
        /\ UNCHANGED <<items, data_file>>
        /\ UNCHANGED gui_vars

NextFile ==
    \/ AddItemFile
    \/ MarkCollected
    \/ SaveData
    \/ LoadData
    \/ Construct
    \/ EnvWriteFile

SpecFile == InitFile /\ [][NextFile]_vars

----------------------------------------------------------------------------
(* Properties of the record store                                          *)

\* Strings that are equal up to letter case, by classes.
CaseClasses ==
    { {"Chest A", "chest a"}, {"Ore", "ore"}, {"Mondstadt", "mondstadt"},
      {"Liyue", "liyue"}, {"Inazuma", "inazuma"} }

EqualIgnoringCase(a, b) == a = b \/ \E c \in CaseClasses : a \in c /\ b \in c

\* The proximity-duplicate predicate between a stored record and a name,
\* region and position: the floats x and y each differ by less than 0.1
\* (the binary64 subtraction is exact for the coordinates of the model, so
\* FloatNear is also the comparison of the exact difference with 1/10).
NearDuplicate(rec, name, region, x, y) ==
    /\ EqualIgnoringCase(rec.name, name)
    /\ EqualIgnoringCase(rec.region, region)
    /\ FloatNear(rec.x, x)
    /\ FloatNear(rec.y, y)

ExistsNearDuplicate(its, name, region, x, y) ==
    \E i \in 1 .. Len(its) : NearDuplicate(its[i], name, region, x, y)

\* C1: add_item returns False and leaves the item list unchanged whenever
\* the store already holds a record whose name and region equal the new ones
\* ignoring letter case and whose x and y are each within 0.1 of the new
\* ones; the item type plays no part.
C1_DuplicateRejected ==
    (last.op = "add_item"
       /\ ExistsNearDuplicate(pre, last.name, last.region, last.x, last.y))
    => (last.ret = FALSE /\ items = pre)

\* The example of the claim: after ("Chest A", "Mondstadt", 10.0, 20.0,
\* Chest) is stored, ("chest a", "mondstadt", 10.05, 20.0, Resource) is
\* rejected.
C1_Witness ==
    /\ last.op = "add_item"
    /\ last.ret = FALSE
    /\ last.name = "chest a" /\ last.region = "mondstadt"
    /\ last.x = 1005 /\ last.y = 2000 /\ last.type = "Resource"
    /\ Len(pre) = 1
    /\ pre[1].name = "Chest A" /\ pre[1].region = "Mondstadt"
    /\ pre[1].x = 1000 /\ pre[1].y = 2000 /\ pre[1].type = "Chest"

\* C2: when no near-duplicate exists, add_item returns True and the item
\* list is the previous list with one record appended at the end, carrying
\* the given name, region, x, y and type, collected = False and notes = "";
\* every earlier record keeps its position and its field values.
C2_AppendsNewRecord ==
    (last.op = "add_item"
       /\ ~ExistsNearDuplicate(pre, last.name, last.region, last.x, last.y))
    => /\ last.ret = TRUE
       /\ Len(items) = Len(pre) + 1
       /\ \A i \in 1 .. Len(pre) : items[i] = pre[i]
       /\ LET new == items[Len(items)]
          IN  /\ new.name = last.name
              /\ new.region = last.region
              /\ new.x = last.x
              /\ new.y = last.y
              /\ new.type = last.type
              /\ new.collected = FALSE
              /\ new.notes = ""

\* A second record was appended behind a record that had been marked.
C2_Witness ==
    /\ last.op = "add_item"
    /\ last.ret = TRUE
    /\ Len(pre) = 1
    /\ pre[1].collected /\ pre[1].notes = "seen"
    /\ Len(items) = 2
    /\ items[2].name = last.name

\* Two stored records that are proximity duplicates of each other.
ProximityDuplicates(a, b) == NearDuplicate(a, b.name, b.region, b.x, b.y)

\* C3: starting from an empty store, after any sequence of add_item and
\* mark_collected calls no two distinct stored records satisfy the
\* proximity-duplicate predicate.
C3_NoProximityDuplicates ==
    \A i, j \in 1 .. Len(items) :
        i # j => ~ProximityDuplicates(items[i], items[j])

\* Two records of the same name and region coexist, one axis apart by 0.1
\* or more, after an add and a mark.
C3_Witness ==
    /\ Len(items) = 2
    /\ EqualIgnoringCase(items[1].name, items[2].name)
    /\ EqualIgnoringCase(items[1].region, items[2].region)
    /\ items[1].collected
    /\ last.op = "add_item" /\ last.ret = TRUE

\* C4: mark_collected with an index outside 0..len(items)-1 returns False
\* and leaves every field of every stored record unchanged.
C4_BadIndexRejected ==
    (last.op = "mark_collected"
       /\ (last.index < 0 \/ last.index >= Len(pre)))
    => (last.ret = FALSE /\ items = pre)

\* An index equal to the item count on a store that holds records.
C4_Witness ==
    /\ last.op = "mark_collected"
    /\ Len(pre) > 0
    /\ last.index = Len(pre)
    /\ last.collected
    /\ last.ret = FALSE

\* C6: get_collected_stats returns total = number of stored records,
\* collected = number of records whose collected flag is true, remaining =
\* total - collected, and percentage = 0 when total is 0 and
\* collected/total*100 otherwise; it never divides by zero and does not
\* change the store.
C6_StatsCorrect ==
    last.op = "get_collected_stats"
    => LET r == last.ret
           n == Cardinality({i \in 1 .. Len(pre) : pre[i].collected})
       IN  /\ ~last.raised
           /\ r.total = Len(pre)
           /\ r.collected = n
           /\ r.remaining = r.total - r.collected
           /\ 0 <= r.collected /\ r.collected <= r.total
           /\ r.collected + r.remaining = r.total
           /\ r.total = 0 => r.percentage.num = 0
           /\ r.total > 0 =>
                  r.percentage.num * r.total = r.collected * 100 * r.percentage.den
           /\ r.percentage.den > 0
           /\ items = pre

\* Statistics of a store with one collected record out of two.
C6_Witness ==
    /\ last.op = "get_collected_stats"
    /\ last.ret.total = 2
    /\ last.ret.collected = 1
    /\ last.ret.percentage.num = 100 /\ last.ret.percentage.den = 2

\* Positions of the records of `its' whose region equals r ignoring case.
RegionPositions(its, r) ==
    {i \in 1 .. Len(its) : EqualIgnoringCase(its[i].region, r)}

\* The k-th smallest position of a set of positions.
KthPosition(ps, k) ==
    CHOOSE i \in ps : Cardinality({j \in ps : j < i}) = k - 1

\* C7: get_items_by_region(r) returns exactly the stored records whose
\* region equals r ignoring letter case, each once, in the store's order,
\* and no record of another region; the store is unchanged.
C7_RegionFilterCorrect ==
    last.op = "get_items_by_region"
    => LET ps == RegionPositions(pre, last.region)
       IN  /\ Len(last.ret) = Cardinality(ps)
           /\ \A k \in 1 .. Len(last.ret) : last.ret[k] = pre[KthPosition(ps, k)]
           /\ items = pre

\* "mondstadt" returns a record stored with region "Mondstadt" and leaves
\* out the record of another region stored before it.
C7_Witness ==
    /\ last.op = "get_items_by_region"
    /\ last.region = "mondstadt"
    /\ Len(pre) = 2
    /\ pre[1].region = "Liyue"
    /\ Len(last.ret) = 1
    /\ last.ret[1].region = "Mondstadt"

----------------------------------------------------------------------------
(* Properties of the persistence                                           *)

C8_MissingFileNotFalse ==
    (last.op = "load_data" /\ file.kind = "missing")
    => (items = <<>> /\ last.ret # FALSE)

\* C8, amended: when the data file does not exist, load_data leaves the
\* store with an empty item list and returns False.
C8_MissingFileEmptyAndFalse ==
    (last.op = "load_data" /\ file.kind = "missing")
    => (items = <<>> /\ last.ret = FALSE)

\* The file is missing and the store held records before the load.
C8_Witness ==
    /\ last.op = "load_data"
    /\ file.kind = "missing"
    /\ Len(pre) > 0
    /\ items = <<>>

\* The value parsed from the JSON value j has no `items' key.
NoItemsKey(j) == j.t # "obj" \/ "items" \notin DOMAIN j.v

\* C9: when the data file exists but is not parseable JSON, or parses to a
\* value that has no `items' key, load_data returns False and the item list
\* is empty afterwards, whatever the store held before.
C9_MalformedFileResets ==
    (last.op = "load_data"
       /\ (file.kind = "text" \/ (file.kind = "json" /\ NoItemsKey(file.val))))
    => (last.ret = FALSE /\ items = <<>>)

\* A JSON object without `items' is loaded into a store that held records.
C9_Witness ==
    /\ last.op = "load_data"
    /\ file.kind = "json"
    /\ file.val.t = "obj"
    /\ "items" \notin DOMAIN file.val.v
    /\ Len(pre) > 0
    /\ last.ret = FALSE

\* C10: for any data-file path whose location is writable, save_data
\* creates the missing parent directories and returns True with the file
\* written, for every form of path, a bare file name included.
C10_SaveSucceedsOnAnyPath ==
    (last.op = "save_data" /\ last.writable)
    => /\ last.ret = TRUE
       /\ file.kind = "json"
       /\ Dirname(data_file) # <<>> => Dirname(data_file) \in dirs

\* C11: save_data never changes the in-memory item list and always returns
\* a boolean; when the write fails it returns False, and when it returns
\* True the document's metadata.total_items is the number of records in its
\* items array.
C11_SaveFrameAndCount ==
    last.op = "save_data"
    => /\ items = pre
       /\ last.ret \in BOOLEAN
       /\ ~last.writable => last.ret = FALSE
       /\ last.ret = TRUE =>
             /\ file.kind = "json"
             /\ file.val.v.metadata.v.total_items.v = Len(file.val.v.items.v)
             /\ Len(file.val.v.items.v) = Len(items)

\* A save of two records, one of them collected, returned True.
C11_Witness ==
    /\ last.op = "save_data"
    /\ last.ret = TRUE
    /\ Len(items) = 2
    /\ items[1].collected /\ ~items[2].collected
    /\ file.val.v.metadata.v.total_items.v = 2

----------------------------------------------------------------------------
(* Further properties of the record store                                  *)

\* C16: mark_collected with 0 <= index < len(items) returns True, sets the
\* record's collected flag to the given value, replaces its notes only when
\* the notes argument is non-empty, and leaves the record's other fields
\* and every other record unchanged.
C16_MarkInRange ==
    (last.op = "mark_collected" /\ 0 <= last.index /\ last.index < Len(pre))
    => LET k == last.index + 1
       IN  /\ last.ret = TRUE
           /\ Len(items) = Len(pre)
           /\ items[k].collected = last.collected
           /\ items[k].notes = (IF last.notes = "" THEN pre[k].notes ELSE last.notes)
           /\ items[k].name = pre[k].name
           /\ items[k].region = pre[k].region
           /\ items[k].x = pre[k].x
           /\ items[k].y = pre[k].y
           /\ items[k].type = pre[k].type
           /\ items[k].date_added = pre[k].date_added
           /\ \A i \in 1 .. Len(pre) : i # k => items[i] = pre[i]

\* A collected record with notes is marked as not collected with an empty
\* notes argument: the notes stay.
C16_Witness ==
    /\ last.op = "mark_collected"
    /\ last.index = 0 /\ last.notes = "" /\ ~last.collected
    /\ Len(pre) = 2
    /\ pre[1].collected /\ pre[1].notes = "seen"
    /\ ~items[1].collected /\ items[1].notes = "seen"

\* The records of `its' with the name and region of the call, ignoring case.
SameNameRegion(its, name, region) ==
    {i \in 1 .. Len(its) : /\ EqualIgnoringCase(its[i].name, name)
                           /\ EqualIgnoringCase(its[i].region, region)}

\* Two coordinates, as the decimals they were written as, differ by less
\* than 0.1.
DecimalNear(a, b) == Abs(a - b) < 10

\* C17 as stated, on the coordinates as decimals: add_item succeeds whenever
\* every stored record of the same name and region differs from the new
\* position by 0.1 or more on some axis, exactly 0.1 included.
C17_StrictPerAxisDecimal ==
    (last.op = "add_item"
       /\ \A i \in SameNameRegion(pre, last.name, last.region) :
              ~DecimalNear(pre[i].x, last.x) \/ ~DecimalNear(pre[i].y, last.y))
    => last.ret = TRUE

\* C17, amended: the test is strict and per axis on the binary64
\* differences. add_item is rejected only if some stored record of the same
\* name and region has both abs(dx) < 0.1 and abs(dy) < 0.1 as computed in
\* binary64, and succeeds when on every such record one of the two computed
\* differences is 0.1 or more.
C17_StrictPerAxisFloat ==
    last.op = "add_item"
    => /\ last.ret = FALSE =>
             \E i \in SameNameRegion(pre, last.name, last.region) :
                 FloatNear(pre[i].x, last.x) /\ FloatNear(pre[i].y, last.y)
       /\ (\A i \in SameNameRegion(pre, last.name, last.region) :
               ~FloatNear(pre[i].x, last.x) \/ ~FloatNear(pre[i].y, last.y))
          => (last.ret = TRUE /\ Len(items) = Len(pre) + 1)

\* A record of the same name, region and x as a stored one, 0.1 away on y
\* (20.0 and 20.1), is accepted.
C17_Witness ==
    /\ last.op = "add_item"
    /\ last.ret = TRUE
    /\ Len(pre) = 1
    /\ pre[1].name = last.name /\ pre[1].region = last.region
    /\ pre[1].x = last.x
    /\ Abs(pre[1].y - last.y) = 10

----------------------------------------------------------------------------
(* The command-line menu (main). One action is one pass of the menu loop:  *)
(* the choice, the inputs typed for it and the calls made on the tracker.  *)
(* A typed number is a record: kind "int" with its sign and digits, kind   *)
(* "text" for input that int() or float() rejects, kind "empty".           *)

\* self.regions
regions == <<"Mondstadt", "Liyue", "Inazuma">>

\* item_types of menu option 1; the last one is the default.
item_types == <<"Chest", "Resource", "Other">>

Typed(neg, digits) == [kind |-> "int", neg |-> neg, digits |-> digits]
NotANumber == [kind |-> "text"]
Nothing == [kind |-> "empty"]

\* int(text) and float(text): the value, or ValueError.
ParseNumber(t) ==
    IF t.kind = "int"
    THEN [ok |-> TRUE, v |-> IF t.neg THEN 0 - t.digits ELSE t.digits]
    ELSE [ok |-> FALSE]

\* What is typed after choosing option 1: region number, name, type
\* number, x and y (coordinates in hundredths).
CliAddInputs ==
    { [region_num |-> 1, name |-> "Chest A", type_num |-> 1,
       x |-> Typed(FALSE, 1000), y |-> Typed(FALSE, 2000)],
      [region_num |-> 2, name |-> "Chest A", type_num |-> 1,
       x |-> Typed(FALSE, 1000), y |-> Typed(FALSE, 2000)],
      [region_num |-> 1, name |-> "Chest A", type_num |-> 9,
       x |-> Typed(FALSE, 1005), y |-> Typed(FALSE, 2000)],
      [region_num |-> 1, name |-> "Ore", type_num |-> 2,
       x |-> Typed(FALSE, 200000), y |-> Typed(TRUE, 200000)],
      [region_num |-> 9, name |-> "Ore", type_num |-> 2,
       x |-> Typed(FALSE, 1000), y |-> Typed(FALSE, 2000)],
      [region_num |-> 1, name |-> "", type_num |-> 1,
       x |-> Typed(FALSE, 1000), y |-> Typed(FALSE, 2000)],
      [region_num |-> 3, name |-> "Ore", type_num |-> 2,
       x |-> NotANumber, y |-> Typed(FALSE, 2000)] }

\* What is typed as the index of option 4.
CliIndexInputs ==
    {Nothing, NotANumber}
        \cup {Typed(neg, d) : neg \in BOOLEAN, d \in 0 .. MaxItems + 1}

\* Menu option 1.
cli_add(inp, now) ==
    LET x == ParseNumber(inp.x)
        y == ParseNumber(inp.y)
        reaches_add ==
            /\ 1 <= inp.region_num /\ inp.region_num <= Len(regions)
            /\ inp.name # ""
            /\ x.ok /\ y.ok
        region == regions[inp.region_num]
        item_type == IF 1 <= inp.type_num /\ inp.type_num <= Len(item_types)
                     THEN item_types[inp.type_num]
                     ELSE item_types[Len(item_types)]
    IN  /\ pre' = items
        /\ IF reaches_add
           THEN /\ HasSimilar(items, inp.name, region, x.v, y.v) \/ Len(items) < MaxItems
                /\ IF HasSimilar(items, inp.name, region, x.v, y.v)
                   THEN /\ items' = items
                        /\ last' = [op |-> "cli_add", called |-> TRUE, ret |-> FALSE,
                                    x |-> x.v, y |-> y.v]
                   ELSE /\ items' = Append(items, NewItem(inp.name, region, x.v, y.v,
                                                          item_type, now))
                        /\ last' = [op |-> "cli_add", called |-> TRUE, ret |-> TRUE,
                                    x |-> x.v, y |-> y.v]
           ELSE /\ items' = items
                /\ last' = [op |-> "cli_add", called |-> FALSE]
        /\ UNCHANGED <<data_file, dirs, file, gui_vars>>

\* The numbers option 2 prints, one per record in store order:
\* for i, item in enumerate(items): print(f"{i:2}. ...")
PrintedAll(its) == [p \in 1 .. Len(its) |-> p - 1]

\* tracker.items.index(item): the first position holding an equal record,
\* counted from 0.
IndexOf(its, item) ==
    (CHOOSE p \in 1 .. Len(its) :
        its[p] = item /\ \A q \in 1 .. p - 1 : its[q] # item) - 1

\* The numbers option 3 prints for a region, one per listed record.
PrintedRegion(its, region) ==
    LET listed == RegionFilter(its, region)
    IN  [k \in 1 .. Len(listed) |-> IndexOf(its, listed[k])]

\* Menu option 2.
cli_list_all ==
    /\ pre' = items
    /\ last' = [op |-> "cli_list_all", printed |-> PrintedAll(items)]
    /\ UNCHANGED <<items, data_file, dirs, file, gui_vars>>

\* Menu option 3.
cli_list_region(region_num) ==
    /\ pre' = items
    /\ last' = [op |-> "cli_list_region", region_num |-> region_num,
                printed |-> IF 1 <= region_num /\ region_num <= Len(regions)
                            THEN PrintedRegion(items, regions[region_num])
                            ELSE <<>>]
    /\ UNCHANGED <<items, data_file, dirs, file, gui_vars>>

\* Menu option 4: the typed index, then the notes if the index is accepted.
cli_mark(typed, notes) ==
    LET index == ParseNumber(typed)
        item_index == Abs(index.v) - 1
        collected == index.v > 0
        calls == /\ items # <<>>
                 /\ index.ok
                 /\ index.v # 0
                 /\ 0 <= item_index /\ item_index < Len(items)
    IN  /\ pre' = items
        /\ items' = IF calls
                    THEN [items EXCEPT ![item_index + 1] =
                             [@ EXCEPT !.collected = collected,
                                       !.notes = IF notes # "" THEN notes ELSE @]]
                    ELSE items
        /\ last' = [op |-> "cli_mark", typed |-> typed, called |-> calls]
        /\ UNCHANGED <<data_file, dirs, file, gui_vars>>

CliAdd == \E inp \in CliAddInputs, now \in Dates : cli_add(inp, now)
CliListAll == cli_list_all
CliListRegion == \E n \in 0 .. Len(regions) : cli_list_region(n)
CliMark == \E typed \in CliIndexInputs, notes \in NotesIn : cli_mark(typed, notes)

NextCli == CliAdd \/ CliListAll \/ CliListRegion \/ CliMark

SpecCli == Init /\ [][NextCli]_vars

\* C19: the number printed next to a record by the list views identifies
\* that record in the mark operation: typing the number shown for a record
\* (by option 2, or by option 3 for the record's region) marks that record
\* as collected, typing it with a minus sign marks it as not collected.
C19_ShownNumberMarksRecord ==
    (last.op = "cli_mark" /\ last.typed.kind = "int")
    => \A p \in 1 .. Len(pre) :
           (\/ PrintedAll(pre)[p] = last.typed.digits
            \/ \E r \in 1 .. Len(regions) :
                   \E k \in DOMAIN PrintedRegion(pre, regions[r]) :
                       /\ RegionFilter(pre, regions[r])[k] = pre[p]
                       /\ PrintedRegion(pre, regions[r])[k] = last.typed.digits)
           => items[p].collected = ~last.typed.neg

----------------------------------------------------------------------------
(* The graphical front end (GenshinTrackerGUI, AddEditItemWindow).          *)
(* region_var is the region filter; tree holds, for every row of the       *)
(* table in order, the store position of the record whose values the row   *)
(* was filled with. A list the tracker returns is a list of store          *)
(* positions: get_all_items returns self.items itself, and the list        *)
(* comprehension of get_items_by_region holds the same dict objects.       *)
(* The add/edit dialog is modal (grab_set), so opening it, filling it and  *)
(* pressing Save is one action; its input is the content of the form.      *)
(* The construction of the dialog is taken to succeed in both modes.       *)

\* The bound of the range test of save_item, in hundredths (1000.00).
CoordLimit == 100000

\* str.strip() on the texts of the model.
Strip(s) == IF s = " " THEN "" ELSE s

\* The content of the dialog when Save is pressed.
Form(name, region, item_type, x, y, notes, collected) ==
    [name |-> name, region |-> region, type |-> item_type, x |-> x, y |-> y,
     notes |-> notes, collected |-> collected]

GuiForms ==
    { Form("Chest A", "Mondstadt", "Chest", Typed(FALSE, 1000), Typed(FALSE, 2000), "", FALSE),
      Form("Chest A", "Mondstadt", "Chest", Typed(FALSE, 1005), Typed(FALSE, 2000), "seen", TRUE),
      Form("Chest A", "Liyue", "Chest", Typed(FALSE, 100000), Typed(TRUE, 100000), "", TRUE),
      Form(" ", "Mondstadt", "Chest", Typed(FALSE, 1000), Typed(FALSE, 2000), "", FALSE),
      Form("Ore", "", "Chest", Typed(FALSE, 1000), Typed(FALSE, 2000), "", FALSE),
      Form("Ore", "Liyue", "", Typed(FALSE, 1000), Typed(FALSE, 2000), "", FALSE),
      Form("Ore", "Liyue", "Resource", NotANumber, Typed(FALSE, 2000), "", FALSE),
      Form("Ore", "Liyue", "Resource", Typed(FALSE, 1000), Nothing, "", FALSE),
      Form("Ore", "Liyue", "Resource", Typed(FALSE, 100001), Typed(FALSE, 2000), "", FALSE),
      Form("Ore", "Liyue", "Resource", Typed(FALSE, 1000), Typed(TRUE, 100001), "", FALSE) }

\* Arguments of direct add_item calls (no dialog in front of them).
ApiAddInputs == { <<"Ore", "mondstadt", 200000, 0 - 200000, "Resource">> }

\* The values of the region filter combobox.
GuiRegionChoices == {AllRegions} \cup {regions[i] : i \in 1 .. Len(regions)}

\* x = float(text); if not (-1000 <= x <= 1000): raise ValueError
CoordOk(t) ==
    LET v == ParseNumber(t)
    IN  v.ok /\ 0 - CoordLimit <= v.v /\ v.v <= CoordLimit

\* ValidForm without the range test on x and y.
ValidFormNoRange(form) ==
    /\ Strip(form.name) # ""
    /\ Strip(form.region) # ""
    /\ Strip(form.type) # ""
    /\ ParseNumber(form.x).ok
    /\ ParseNumber(form.y).ok

\* The validation of save_item: every test passed, no early return.
ValidForm(form) ==
    /\ Strip(form.name) # ""
    /\ Strip(form.region) # ""
    /\ Strip(form.type) # ""
    /\ CoordOk(form.x)
    /\ CoordOk(form.y)

\* get_all_items(), as store positions.
AllRefs(its) == [p \in 1 .. Len(its) |-> p]

RECURSIVE RegionRefsUpTo(_, _, _)
RegionRefsUpTo(its, region, n) ==
    IF n = 0 THEN <<>>
    ELSE RegionRefsUpTo(its, region, n - 1)
             \o (IF Lower(its[n].region) = Lower(region) THEN <<n>> ELSE <<>>)

\* get_items_by_region(region), as store positions.
RegionRefs(its, region) == RegionRefsUpTo(its, region, Len(its))

\* The list the handlers take for the current filter.
Displayed(its, selected_region) ==
    IF selected_region = AllRegions
    THEN AllRefs(its)
    ELSE RegionRefs(its, selected_region)

\* refresh_items on a combobox selection (or the refresh button when the
\* region is the current one).
gui_select_region(region) ==
    /\ pre' = items
    /\ region_var' = region
    /\ tree' = Displayed(items, region)
    /\ last' = [op |-> "gui_filter", region |-> region]
    /\ UNCHANGED <<items, data_file, dirs, file>>

\* save_item in add mode.
gui_add(form, now) ==
    LET name == Strip(form.name)
        region == Strip(form.region)
        item_type == Strip(form.type)
        x == ParseNumber(form.x)
        y == ParseNumber(form.y)
    IN  /\ pre' = items
        /\ IF ~ValidForm(form)
           THEN /\ items' = items
                /\ tree' = tree
                /\ last' = [op |-> "gui_add", form |-> form, valid |-> FALSE, ret |-> FALSE]
           ELSE /\ HasSimilar(items, name, region, x.v, y.v) \/ Len(items) < MaxItems
                /\ IF HasSimilar(items, name, region, x.v, y.v)
                   THEN /\ items' = items
                        /\ tree' = tree
                        /\ last' = [op |-> "gui_add", form |-> form, valid |-> TRUE,
                                    ret |-> FALSE]
                   ELSE /\ items' = Append(items, NewItem(name, region, x.v, y.v,
                                                          item_type, now))
                        /\ tree' = Displayed(items', region_var)
                        /\ last' = [op |-> "gui_add", form |-> form, valid |-> TRUE,
                                    ret |-> TRUE]
        /\ UNCHANGED <<data_file, dirs, file, region_var>>

\* FindEditTarget taking the selected record itself.
FindEditTargetByIdentity(its, ref) == ref

\* The search loop of save_item in edit mode for self.item = its[ref]:
\* the first position whose record matches it by value, 0 for None.
FindEditTarget(its, ref) ==
    LET matches == {i \in 1 .. Len(its) :
                       /\ its[i].name = its[ref].name
                       /\ its[i].region = its[ref].region
                       /\ FloatNear(its[i].x, its[ref].x)
                       /\ FloatNear(its[i].y, its[ref].y)}
    IN  IF matches = {} THEN 0
        ELSE CHOOSE i \in matches : \A j \in matches : i <= j

\* ApplyEdit building the record anew, without its date.
ApplyEditFreshRecord(its, idx, form) ==
    [its EXCEPT ![idx] = [name |-> Strip(form.name),
                          region |-> Strip(form.region),
                          type |-> Strip(form.type),
                          x |-> ParseNumber(form.x).v,
                          y |-> ParseNumber(form.y).v,
                          notes |-> Strip(form.notes),
                          collected |-> form.collected,
                          date_added |-> ""]]

\* ApplyEdit removing the record and appending the edited one.
ApplyEditReappend(its, idx, form) ==
    LET edited == [its[idx] EXCEPT !.name = Strip(form.name),
                                   !.region = Strip(form.region),
                                   !.type = Strip(form.type),
                                   !.x = ParseNumber(form.x).v,
                                   !.y = ParseNumber(form.y).v,
                                   !.notes = Strip(form.notes),
                                   !.collected = form.collected]
    IN  SubSeq(its, 1, idx - 1) \o SubSeq(its, idx + 1, Len(its)) \o <<edited>>

\* ApplyEdit refusing a form that is similar to another stored record.
ApplyEditUnlessDuplicate(its, idx, form) ==
    IF \E j \in 1 .. Len(its) :
           j # idx /\ SimilarItem(its[j], Strip(form.name), Strip(form.region),
                                  ParseNumber(form.x).v, ParseNumber(form.y).v)
    THEN its
    ELSE [its EXCEPT ![idx] = [@ EXCEPT !.name = Strip(form.name),
                                        !.region = Strip(form.region),
                                        !.type = Strip(form.type),
                                        !.x = ParseNumber(form.x).v,
                                        !.y = ParseNumber(form.y).v,
                                        !.notes = Strip(form.notes),
                                        !.collected = form.collected]]

\* The seven assignments to all_items[item_index].
ApplyEdit(its, idx, form) ==
    [its EXCEPT ![idx] = [@ EXCEPT !.name = Strip(form.name),
                                   !.region = Strip(form.region),
                                   !.type = Strip(form.type),
                                   !.x = ParseNumber(form.x).v,
                                   !.y = ParseNumber(form.y).v,
                                   !.notes = Strip(form.notes),
                                   !.collected = form.collected]]

\* open_edit_item_window for the selected row sel (-1: no selection),
\* then save_item in edit mode.
gui_edit(sel, form) ==
    LET refs == Displayed(items, region_var)
        opened == 0 <= sel /\ sel < Len(refs)
        ref == refs[sel + 1]
        idx == FindEditTarget(items, ref)
    IN  /\ pre' = items
        /\ IF opened /\ ValidForm(form) /\ idx # 0
           THEN /\ items' = ApplyEdit(items, idx, form)
                /\ tree' = Displayed(items', region_var)
                /\ last' = [op |-> "gui_edit", sel |-> sel, form |-> form,
                            shown |-> tree[sel + 1], selected |-> ref, hit |-> idx]
           ELSE /\ items' = items
                /\ tree' = tree
                /\ last' = [op |-> "gui_edit", sel |-> sel, form |-> form,
                            shown |-> IF sel >= 0 THEN tree[sel + 1] ELSE 0,
                            selected |-> IF opened THEN ref ELSE 0, hit |-> 0]
        /\ UNCHANGED <<data_file, dirs, file, region_var>>

\* toggle_item_status writing to a copy of the listed record.
toggle_item_status_on_copy(sel) ==
    LET refs == Displayed(items, region_var)
    IN  /\ pre' = items
        /\ items' = items
        /\ last' = IF 0 <= sel /\ sel < Len(refs)
                   THEN [op |-> "gui_toggle", sel |-> sel, shown |-> tree[sel + 1],
                         hit |-> refs[sel + 1]]
                   ELSE [op |-> "gui_toggle", sel |-> sel,
                         shown |-> IF sel >= 0 THEN tree[sel + 1] ELSE 0, hit |-> 0]
        /\ UNCHANGED <<data_file, dirs, file, region_var, tree>>

\* toggle_item_status indexing the whole store whatever the filter.
toggle_item_status_unfiltered(sel) ==
    LET refs == AllRefs(items)
    IN  /\ pre' = items
        /\ IF 0 <= sel /\ sel < Len(refs)
           THEN /\ items' = [items EXCEPT ![refs[sel + 1]].collected = ~@]
                /\ last' = [op |-> "gui_toggle", sel |-> sel, shown |-> tree[sel + 1],
                            hit |-> refs[sel + 1]]
           ELSE /\ items' = items
                /\ last' = [op |-> "gui_toggle", sel |-> sel,
                            shown |-> IF sel >= 0 THEN tree[sel + 1] ELSE 0,
                            hit |-> 0]
        /\ UNCHANGED <<data_file, dirs, file, region_var, tree>>

\* toggle_item_status for the selected row sel (-1: no selection).
toggle_item_status(sel) ==
    LET refs == Displayed(items, region_var)
    IN  /\ pre' = items
        /\ IF 0 <= sel /\ sel < Len(refs)
           THEN /\ items' = [items EXCEPT ![refs[sel + 1]].collected = ~@]
                /\ last' = [op |-> "gui_toggle", sel |-> sel, shown |-> tree[sel + 1],
                            hit |-> refs[sel + 1]]
           ELSE /\ items' = items
                /\ last' = [op |-> "gui_toggle", sel |-> sel,
                            shown |-> IF sel >= 0 THEN tree[sel + 1] ELSE 0,
                            hit |-> 0]
        /\ UNCHANGED <<data_file, dirs, file, region_var, tree>>

\* on_closing: with a non-empty store the user answers the question; "yes"
\* saves (whatever the result) and destroys the window, "no" destroys it,
\* "cancel" returns to the program.
gui_on_closing(answer, writable, now) ==
    IF items # <<>> /\ answer = "yes"
    THEN save_data(writable, now) /\ UNCHANGED gui_vars
    ELSE /\ pre' = items
         /\ last' = [op |-> "on_closing", answer |-> answer,
                     destroyed |-> (items = <<>> \/ answer = "no")]
         /\ UNCHANGED <<items, data_file, dirs, file, gui_vars>>

\* The main window exists: on_closing has not destroyed it (in this front
\* end save_data is only called on the way out).
Running ==
    /\ last.op # "save_data"
    /\ ~(last.op = "on_closing" /\ last.destroyed)

GuiSelectRegion ==
    Running /\ \E region \in GuiRegionChoices : gui_select_region(region)

GuiAdd == Running /\ \E form \in GuiForms, now \in Dates : gui_add(form, now)

GuiEdit ==
    Running /\ \E sel \in -1 .. Len(tree) - 1, form \in GuiForms : gui_edit(sel, form)

GuiToggle == Running /\ \E sel \in -1 .. Len(tree) - 1 : toggle_item_status(sel)

GuiClose ==
    /\ Running
    /\ \E answer \in {"yes", "no", "cancel"}, writable \in BOOLEAN, now \in Dates :
           gui_on_closing(answer, writable, now)

\* Direct calls on the tracker object (the CLI path, a script): they do
\* not pass through the dialog and do not refresh the table.
ApiAddItem ==
    /\ Running
    /\ \E a \in ApiAddInputs, now \in Dates :
           add_item(a[1], a[2], a[3], a[4], a[5], now)
    /\ UNCHANGED gui_vars

ApiMarkCollected ==
    /\ Running
    /\ \E index \in 0 .. MaxItems, collected \in BOOLEAN :
           mark_collected(index, collected, "")
    /\ UNCHANGED gui_vars

NextGui ==
    \/ GuiSelectRegion
    \/ GuiAdd
    \/ GuiEdit
    \/ GuiToggle
    \/ GuiClose
    \/ ApiAddItem
    \/ ApiMarkCollected

SpecGui == Init /\ [][NextGui]_vars

----------------------------------------------------------------------------
(* Properties of the graphical front end                                   *)

\* The store position an operation wrote to, 0 if none.
Touched(l) ==
    CASE l.op \in {"gui_edit", "gui_toggle"} -> l.hit
      [] l.op = "mark_collected" -> IF l.ret THEN l.index + 1 ELSE 0
      [] OTHER -> 0

\* C12: records are never deleted: over add_item, mark_collected, the GUI
\* add, edit-save and status toggle and save_data, the number of stored
\* records never decreases and every record stays at its list position (a
\* step changes at most the record it writes to, in place).
C12_NeverDeleted ==
    /\ Len(items) >= Len(pre)
    /\ \A p \in 1 .. Len(pre) :
           /\ p # Touched(last) => items[p] = pre[p]
           /\ items[p].date_added = pre[p].date_added

\* An edit-save rewrote the first of two records in place; the second one
\* is where it was.
C12_Witness ==
    /\ last.op = "gui_edit"
    /\ last.hit = 1
    /\ Len(pre) = 2 /\ Len(items) = 2
    /\ items[1] # pre[1]
    /\ items[2] = pre[2]
    /\ pre[1] # pre[2]

\* C13: the records in the lists get_all_items and get_items_by_region
\* return are the store's own: the flag the status toggle flips through the
\* list taken for the current filter is flipped in the store, so the
\* statistics and the saved document computed from the store reflect it,
\* and a successful save writes the store as it is then.
C13_ReturnedRecordsShared ==
    /\ (last.op = "gui_toggle" /\ last.hit # 0)
       => /\ items[last.hit].collected = ~pre[last.hit].collected
          /\ Stats(items).collected =
                 Stats(pre).collected + (IF pre[last.hit].collected THEN -1 ELSE 1)
          /\ \A now \in Dates :
                 PyOfJson(DumpData(items, now)).items[last.hit].collected
                     = ~pre[last.hit].collected
    /\ (last.op = "save_data" /\ last.ret = TRUE)
       => PyOfJson(file.val).items = items

\* With the filter on a region, the toggle of the first row flipped the
\* second record of the store, which the statistics count.
C13_Witness ==
    /\ last.op = "gui_toggle"
    /\ region_var = "Liyue"
    /\ last.sel = 0 /\ last.hit = 2
    /\ items[2].collected /\ ~pre[2].collected
    /\ Stats(items).collected = 1

\* The dialog has to reject the form: an empty name, region or type, or an
\* x or y that is not a number or lies outside [-1000, 1000].
OutsideRange(t) ==
    t.kind # "int" \/ t.digits > 100000

DialogMustReject(form) ==
    \/ Strip(form.name) = ""
    \/ Strip(form.region) = ""
    \/ Strip(form.type) = ""
    \/ OutsideRange(form.x)
    \/ OutsideRange(form.y)

\* Some two distinct records of the list are proximity-duplicates.
HasProximityPair(its) ==
    \E i, j \in 1 .. Len(its) : i # j /\ ProximityDuplicates(its[i], its[j])

C15_DialogValidation ==
    /\ (last.op \in {"gui_add", "gui_edit"} /\ DialogMustReject(last.form))
       => items = pre
    /\ (last.op = "gui_add" /\ last.ret)
       => /\ Abs(items[Len(items)].x) <= 100000
          /\ Abs(items[Len(items)].y) <= 100000
    /\ (last.op = "gui_edit" /\ last.hit # 0)
       => /\ Abs(items[last.hit].x) <= 100000
          /\ Abs(items[last.hit].y) <= 100000
    /\ (last.op = "add_item"
          /\ ~ExistsNearDuplicate(pre, last.name, last.region, last.x, last.y))
       => /\ last.ret = TRUE
          /\ items[Len(items)].x = last.x
          /\ items[Len(items)].y = last.y

\* The edit of a record to x = 1000.01 was rejected, in a store that holds
\* a record with x = 2000.00 from a direct add_item call.
C15_Witness ==
    /\ last.op = "gui_edit"
    /\ last.selected # 0
    /\ last.form.x = Typed(FALSE, 100001)
    /\ items = pre
    /\ \E p \in 1 .. Len(items) : items[p].x = 200000

\* The positions of `its' whose record equals that of position ref by
\* value: same name and region, x and y each within 0.1.
ValueMatches(its, ref) ==
    {i \in 1 .. Len(its) : /\ its[i].name = its[ref].name
                           /\ its[i].region = its[ref].region
                           /\ FloatNear(its[i].x, its[ref].x)
                           /\ FloatNear(its[i].y, its[ref].y)}

C20_ToggleHitsDisplayedRecord ==
    (last.op = "gui_toggle" /\ last.sel >= 0)
    => /\ last.shown # 0
       /\ last.hit = last.shown
       /\ items = [pre EXCEPT ![last.shown].collected = ~@]

\* After an edit moved the first record to another region, the toggle of
\* the only row shown for "Mondstadt" switched the second record off.
C20_Witness ==
    /\ last.op = "gui_toggle"
    /\ region_var = "Mondstadt"
    /\ last.sel = 0 /\ last.shown = 2
    /\ items[1].region = "Liyue"
    /\ pre[2].collected /\ ~items[2].collected
    /\ items[1] = pre[1]

\* C23: a successful GUI edit-save changes only the name, region, type, x,
\* y, notes and collected fields of one record: the record keeps its
\* date_added and its position, every other record and the item count are
\* unchanged; an edit-save that writes to no record changes nothing.
C23_EditFrame ==
    last.op = "gui_edit"
    => IF last.hit # 0
       THEN /\ Len(items) = Len(pre)
            /\ DOMAIN items[last.hit] = DOMAIN pre[last.hit]
            /\ \A k \in DOMAIN pre[last.hit] :
                   k \notin {"name", "region", "type", "x", "y", "notes", "collected"}
                       => items[last.hit][k] = pre[last.hit][k]
            /\ \A p \in 1 .. Len(pre) : p # last.hit => items[p] = pre[p]
       ELSE items = pre

\* The edit of the second of two records moved it to another region and
\* changed its coordinates, flag and notes.
C23_Witness ==
    /\ last.op = "gui_edit"
    /\ last.hit = 2
    /\ Len(items) = 2
    /\ items[2].region # pre[2].region
    /\ items[2].x # pre[2].x
    /\ items[2].collected # pre[2].collected
    /\ items[2].notes # pre[2].notes
    /\ items[2].date_added = pre[2].date_added
    /\ items[1] = pre[1]

----------------------------------------------------------------------------
(* Repeated marks and toggles: the store operations with every notes       *)
(* argument, next to the status toggle of the front end.                   *)

NextRepeat ==
    \/ GuiSelectRegion
    \/ GuiAdd
    \/ GuiToggle
    \/ MarkCollected

SpecRepeat == Init /\ [][NextRepeat]_vars

\* C21: mark_collected is idempotent and the GUI toggle is an involution:
\* a mark_collected call that repeats the call before it, with the same
\* index, flag and notes, leaves the store as the first call left it, and
\* a toggle of the row toggled by the step before it gives back the store
\* from before the first toggle.
C21_IdempotentAndInvolution ==
    [][ /\ (/\ last.op = "mark_collected" /\ last'.op = "mark_collected"
            /\ last'.index = last.index
            /\ last'.collected = last.collected
            /\ last'.notes = last.notes)
           => items' = items
        /\ (/\ last.op = "gui_toggle" /\ last'.op = "gui_toggle"
            /\ last'.sel = last.sel)
           => items' = pre ]_vars

\* A mark with notes on a record that already carries that flag and those
\* notes, as the second of two equal calls finds it, changed nothing.
C21_Witness ==
    /\ last.op = "mark_collected"
    /\ last.ret = TRUE
    /\ last.notes = "seen"
    /\ last.collected
    /\ items = pre
    /\ Len(items) = 2

----------------------------------------------------------------------------
(* Loading documents whose `items' value is anything JSON allows, and the  *)
(* call that follows the load. The store is then the value parsed from the *)
(* document, so the call is evaluated on the tagged JSON value, with the   *)
(* exceptions Python raises on it: item[k] needs a dict with key k,        *)
(* .lower() a str, the subtraction a number, .append a list.               *)

\* A record as save_data writes it.
JRecord(name, region, x, y) ==
    JObj([name |-> JStr(name), region |-> JStr(region), x |-> x, y |-> y,
          type |-> JStr("Resource"), collected |-> JBool(FALSE),
          date_added |-> JStr("2024-01-01 10:00:00"), notes |-> JStr("")])

\* The `items' values of the documents found in the file.
LoadItemsValues ==
    { JArr(<<JRecord("Ore", "Liyue", JNum(1005), JNum(2010))>>),
      JArr(<<>>),
      JStr("abc"),
      JStr(""),
      JArr(<<JNum(1)>>),
      JArr(<<JObj([name |-> JStr("Ore")])>>),
      JArr(<<JObj([name |-> JStr("Ore"), region |-> JStr("Liyue"),
                   x |-> JNum(1005), y |-> JNum(2010)])>>),
      JArr(<<JRecord("Ore", "Liyue", JStr("10.05"), JNum(2010))>>),
      JObj([a |-> JNum(1)]),
      JNum(5),
      JNull }

LoadFiles ==
    { [kind |-> "json", val |-> JObj([items |-> v])] : v \in LoadItemsValues }

\* The characters of a str of the model.
StrChars(s) == IF s = "abc" THEN <<"a", "b", "c">> ELSE <<>>

\* The values `for item in self.items' yields: the elements of a list, the
\* keys of a dict, the characters of a str.
Iterated(j) ==
    CASE j.t = "arr" -> j.v
      [] j.t = "obj" ->
            LET keys == DOMAIN j.v
                order == CHOOSE f \in [1 .. Cardinality(keys) -> keys] :
                             \A a, b \in 1 .. Cardinality(keys) : a # b => f[a] # f[b]
            IN  [i \in 1 .. Cardinality(keys) |-> JStr(order[i])]
      [] j.t = "str" -> [i \in 1 .. Len(StrChars(j.v)) |-> JStr(StrChars(j.v)[i])]
      [] OTHER -> <<>>

\* item[k]: the value, or KeyError / TypeError.
GetItem(e, k) ==
    IF e.t = "obj" /\ k \in DOMAIN e.v
    THEN [ok |-> TRUE, v |-> e.v[k]]
    ELSE [ok |-> FALSE]

\* item[k].lower() is defined.
LowerDefined(e, k) == GetItem(e, k).ok /\ GetItem(e, k).v.t = "str"

\* item[k] - x is defined.
MinusDefined(e, k) == GetItem(e, k).ok /\ GetItem(e, k).v.t = "num"

\* The condition of the duplicate scan for one stored value, evaluated
\* left to right: "raise", "similar" or "different".
ItemOutcome(e, name, region, x, y) ==
    IF ~LowerDefined(e, "name") THEN "raise"
    ELSE IF Lower(e.v.name.v) # Lower(name) THEN "different"
    ELSE IF ~LowerDefined(e, "region") THEN "raise"
    ELSE IF Lower(e.v.region.v) # Lower(region) THEN "different"
    ELSE IF ~MinusDefined(e, "x") THEN "raise"
    ELSE IF ~FloatNear(e.v.x.v, x) THEN "different"
    ELSE IF ~MinusDefined(e, "y") THEN "raise"
    ELSE IF ~FloatNear(e.v.y.v, y) THEN "different"
    ELSE "similar"

\* The loop of add_item over the stored values: "raise", "similar", or
\* "none" when it ends without a similar item.
RECURSIVE ScanOutcome(_, _, _, _, _)
ScanOutcome(es, name, region, x, y) ==
    IF es = <<>> THEN "none"
    ELSE IF ItemOutcome(Head(es), name, region, x, y) = "different"
         THEN ScanOutcome(Tail(es), name, region, x, y)
         ELSE ItemOutcome(Head(es), name, region, x, y)

\* add_item on the store loaded from the document in the file.
add_item_loaded(name, region, x, y, item_type, now) ==
    LET store == file.val.v.items
        scan == ScanOutcome(Iterated(store), name, region, x, y)
        raised == scan = "raise" \/ (scan = "none" /\ store.t # "arr")
    IN  /\ pre' = items
        /\ items' = IF scan = "none" /\ store.t = "arr"
                    THEN Append(items, NewItem(name, region, x, y, item_type, now))
                    ELSE items
        /\ last' = [op |-> "add_item_loaded", raised |-> raised,
                    ret |-> (scan = "none" /\ store.t = "arr")]
        /\ UNCHANGED <<data_file, dirs, file, gui_vars>>

\* get_items_by_region on the loaded store: the comprehension reads
\* item['region'].lower() of every value.
get_items_by_region_loaded(region) ==
    LET es == Iterated(file.val.v.items)
    IN  /\ pre' = items
        /\ last' = [op |-> "get_items_by_region_loaded", region |-> region,
                    raised |-> \E i \in 1 .. Len(es) : ~LowerDefined(es[i], "region")]
        /\ UNCHANGED <<items, data_file, dirs, file, gui_vars>>

\* get_collected_stats on the loaded store: the sum reads item['collected']
\* of every value.
get_collected_stats_loaded ==
    LET es == Iterated(file.val.v.items)
    IN  /\ pre' = items
        /\ last' = [op |-> "get_collected_stats_loaded",
                    raised |-> \E i \in 1 .. Len(es) : ~GetItem(es[i], "collected").ok]
        /\ UNCHANGED <<items, data_file, dirs, file, gui_vars>>

\* The store is the one the last step loaded with success.
JustLoaded ==
    \/ last.op = "load_data" /\ last.ret = TRUE
    \/ last.op = "__init__" /\ last.loaded = TRUE

\* Another program leaves a document in the file.
EnvWriteLoadFile ==
    \E f \in LoadFiles :
        /\ file' = f
        /\ dirs' = dirs \cup Ancestors(Dirname(data_file))
        /\ pre' = items
        /\ last' = [op |-> "env"]
        /\ UNCHANGED <<items, data_file, gui_vars>>

AddItemLoaded ==
    /\ JustLoaded
    /\ \E a \in FileAddInputs, now \in Dates :
           add_item_loaded(a[1], a[2], a[3], a[4], a[5], now)

GetItemsByRegionLoaded ==
    JustLoaded /\ \E region \in RegionQueries : get_items_by_region_loaded(region)

GetCollectedStatsLoaded == JustLoaded /\ get_collected_stats_loaded

NextLoad ==
    \/ EnvWriteLoadFile
    \/ LoadData
    \/ Construct
    \/ AddItemLoaded
    \/ GetItemsByRegionLoaded
    \/ GetCollectedStatsLoaded

SpecLoad == Init /\ [][NextLoad]_vars

\* The JSON value is a list of records that each have the eight fields.
WellFormedList(j) ==
    /\ j.t = "arr"
    /\ \A i \in 1 .. Len(j.v) :
           /\ j.v[i].t = "obj"
           /\ {"name", "region", "x", "y", "type", "collected", "date_added", "notes"}
                  \subseteq DOMAIN j.v[i].v

\* C22: whenever load_data returns True the store is a list of well-formed
\* records; a document whose `items' value is not such a list makes
\* load_data return False; and the add_item, get_items_by_region or
\* get_collected_stats call that follows a successful load does not raise.
C22_LoadedStoreWellFormed ==
    /\ (last.op = "load_data" /\ last.ret = TRUE)
       => WellFormedList(file.val.v.items)
    /\ (last.op = "load_data" /\ file.kind = "json"
          /\ ~WellFormedList(file.val.v.items))
       => last.ret = FALSE
    /\ last.op \in {"add_item_loaded", "get_items_by_region_loaded",
                    "get_collected_stats_loaded"}
       => ~last.raised

====
